---- MODULE Spec2Model ----
(***************************************************************************)
(* Multi-model fraud detection backend: the model registry                 *)
(* (app/models/model_loader.py), the feature pipelines and validators      *)
(* (app/utils/preprocessing.py), the dispatcher                            *)
(* (app/services/fraud_service.py) and the routes (app/main.py).           *)
(*                                                                         *)
(* Numbers are fixed point: money and coordinates are integers,            *)
(* probabilities are integers in 0..100 (hundredths).  A Python str of a   *)
(* categorical credit-card field is a sequence of one-character strings,   *)
(* so that strip() and lower() are computed; the online-payment `type` is  *)
(* only ever compared for equality and is an atomic string.                *)
(***************************************************************************)
EXTENDS Integers, Sequences, FiniteSets, TLC

VARIABLES
    models,          \* MultiModelLoader.models: dict name -> estimator
    label_encoders,  \* MultiModelLoader.label_encoders: dict name -> encoder | None
    loaded_models,   \* MultiModelLoader.loaded_models: dict name -> bool
    startup_loaded,  \* lifespan's local list loaded_models (names whose load returned True)
    loading,         \* lifespan's loop locals: the model_name and config of the last iteration
    fraud_service,   \* main.fraud_service: "unset" before lifespan ends, then "None" | "service"
    hash_seed,       \* the process's string-hash seed (PYTHONHASHSEED), fixed per process
    pc,              \* "startup" while lifespan loads, "idle" | "responded" while serving
    request,         \* the request being answered (endpoint, domain, record)
    response,        \* the answer to it
    load_count,      \* history: the number of load_model calls made
    last_ret         \* history: per domain, what its most recent load_model call returned

vars == <<models, label_encoders, loaded_models, startup_loaded, loading, fraud_service,
          hash_seed, pc, request, response, load_count, last_ret>>

-----------------------------------------------------------------------------
(* Bounds of the model *)

\* load_model calls made during startup (lifespan makes two, one per domain)
MaxLoads == 3

-----------------------------------------------------------------------------
(* Python values *)

None == [kind |-> "None", codes |-> {}, fields |-> {}]

Domains == {"online-payment", "credit-card"}

EmptyDict == [k \in {} |-> TRUE]

\* d[k] = v on a dict
DictSet(d, k, v) == (k :> v) @@ d

\* d.get(k, default)
DictGet(d, k, default) == IF k \in DOMAIN d THEN d[k] ELSE default

-----------------------------------------------------------------------------
(* Strings of the categorical credit-card fields *)

Space == " "

\* str.lower() on one character
LowerChar(c) == CASE c = "A" -> "a" [] c = "B" -> "b" [] OTHER -> c

\* str.lower()
Lower(s) == [i \in 1..Len(s) |-> LowerChar(s[i])]

RECURSIVE LStrip(_)
LStrip(s) == IF s # <<>> /\ Head(s) = Space THEN LStrip(Tail(s)) ELSE s

RECURSIVE RStrip(_)
RStrip(s) == IF s # <<>> /\ s[Len(s)] = Space THEN RStrip(SubSeq(s, 1, Len(s) - 1)) ELSE s

\* str.strip()
Strip(s) == RStrip(LStrip(s))

\* ord() of the characters used
Ord(c) == CASE c = "a" -> 97 [] c = "b" -> 98 [] c = "A" -> 65 [] c = "B" -> 66
            [] c = Space -> 32 [] OTHER -> 63

HashModulus == 2 ^ 16

RECURSIVE HashFrom(_, _)
HashFrom(s, h) == IF s = <<>> THEN h
                  ELSE HashFrom(Tail(s), (h * 31 + Ord(Head(s))) % HashModulus)

\* hash(str): a signed value that depends on the process's seed and on every
\* character; hash("") is 0 whatever the seed
PyHash(s, seed) == IF s = <<>> THEN 0
                   ELSE HashFrom(s, seed) - (HashModulus \div 2)

Abs(n) == IF n < 0 THEN -n ELSE n

-----------------------------------------------------------------------------
(* Encoders.  A deserialized encoder artifact is opaque; what the pipelines  *)
(* probe is whether it is truthy, has a transform method, or is a dict.      *)
(*   kind "fitted": a fitted LabelEncoder; codes is its vocabulary with the  *)
(*                  integer code of each value; an unseen value raises       *)
(*                  ValueError                                               *)
(*   kind "broken": an object whose transform raises another exception       *)
(*   kind "dict":   a plain dict; codes are its value -> int items and       *)
(*                  fields its field-name -> per-field encoder items         *)

HasTransform(e) == e.kind \in {"fitted", "broken"}

IsDict(e) == e.kind = "dict"

\* bool(e): None and the empty dict are falsy
Truthy(e) == e.kind # "None" /\ ~(e.kind = "dict" /\ e.codes = {} /\ e.fields = {})

HasKey(items, k) == \E p \in items : p[1] = k

ItemOf(items, k) == (CHOOSE p \in items : p[1] = k)[2]

\* encoder.transform([value])[0]
Transform(e, value) ==
    IF e.kind = "fitted"
    THEN IF HasKey(e.codes, value)
         THEN [exc |-> "None", val |-> ItemOf(e.codes, value)]
         ELSE [exc |-> "ValueError", val |-> 0]
    ELSE [exc |-> "Exception", val |-> 0]

-----------------------------------------------------------------------------
(* app/utils/preprocessing.py *)

fallback_mapping ==
    {<<"PAYMENT", 0>>, <<"TRANSFER", 1>>, <<"CASH_OUT", 2>>, <<"DEBIT", 3>>, <<"CASH_IN", 4>>}

\* mapping.get(key, 0)
GetOrZero(items, key) == IF HasKey(items, key) THEN ItemOf(items, key) ELSE 0

\* an encoding that substitutes 0 when transform fails
EncodeTypeZeroOnError(data, label_encoder) ==
    IF Truthy(label_encoder) /\ HasTransform(label_encoder)
    THEN LET r == Transform(label_encoder, data["type"])
         IN  IF r.exc = "None" THEN r.val ELSE 0
    ELSE IF Truthy(label_encoder) /\ IsDict(label_encoder)
    THEN GetOrZero(label_encoder.codes, data["type"])
    ELSE GetOrZero(fallback_mapping, data["type"])

\* the try/except of preprocess_online_payment_data
EncodeType(data, label_encoder) ==
    IF Truthy(label_encoder) /\ HasTransform(label_encoder)
    THEN LET r == Transform(label_encoder, data["type"])
         IN  IF r.exc = "None" THEN r.val
             ELSE GetOrZero(fallback_mapping, data["type"])
    ELSE IF Truthy(label_encoder) /\ IsDict(label_encoder)
    THEN GetOrZero(label_encoder.codes, data["type"])
    ELSE GetOrZero(fallback_mapping, data["type"])

\* a pipeline whose receiver-side difference adds the amount
preprocess_online_payment_data_sign(data, label_encoder) ==
    LET type_encoded == EncodeType(data, label_encoder)
        diffOrig == data["oldbalanceOrg"] - data["newbalanceOrig"] + data["amount"]
        diffDest == data["newbalanceDest"] - data["oldbalanceDest"] + data["amount"]
    IN  <<data["step"], data["amount"], type_encoded, diffOrig, diffDest>>

preprocess_online_payment_data(data, label_encoder) ==
    LET type_encoded == EncodeType(data, label_encoder)
        diffOrig == data["oldbalanceOrg"] - data["newbalanceOrig"] + data["amount"]
        diffDest == data["newbalanceDest"] - data["oldbalanceDest"] - data["amount"]
    IN  <<data["step"], data["amount"], type_encoded, diffOrig, diffDest>>

OnlineRequiredFields ==
    {"step", "type", "amount", "oldbalanceOrg", "newbalanceOrig", "oldbalanceDest",
     "newbalanceDest"}

valid_types == {"PAYMENT", "TRANSFER", "CASH_OUT", "DEBIT", "CASH_IN"}

OnlineNumericFields ==
    {"step", "amount", "oldbalanceOrg", "newbalanceOrig", "oldbalanceDest", "newbalanceDest"}

\* isinstance(v, (int, float))
IsNumber(v) == v \in Int

validate_online_payment_data(data) ==
    /\ \A f \in OnlineRequiredFields : f \in DOMAIN data
    /\ data["type"] \in valid_types
    /\ \A f \in OnlineNumericFields : IsNumber(data[f]) /\ data[f] >= 0

get_online_payment_feature_names ==
    <<"step", "amount", "type_encoded", "diffOrig", "diffDest">>

numerical_features == <<"amt", "lat", "long", "city_pop", "merch_lat", "merch_long">>

categorical_features == <<"merchant", "category", "city", "state", "job">>

HashRange == 1000

\* float(v): the value is kept (fixed point, magnitudes far below 2^53)
Float(v) == v

\* a loop body that appends nothing when the field cannot be encoded
EncodeWithEncodersSkipping(data, encoders, feature) ==
    IF HasKey(encoders.fields, feature)
    THEN LET r == Transform(ItemOf(encoders.fields, feature), data[feature])
         IN  IF r.exc = "None" THEN <<r.val>> ELSE <<>>
    ELSE <<>>

\* one iteration of the loop over categorical_features when the encoders are a
\* non-empty dict: the value appended for `feature`
EncodeWithEncoders(data, encoders, feature) ==
    IF HasKey(encoders.fields, feature)
    THEN LET r == Transform(ItemOf(encoders.fields, feature), data[feature])
         IN  IF r.exc = "None" THEN <<r.val>> ELSE <<0>>
    ELSE <<0>>

\* one iteration of the hash-based fallback loop
EncodeWithHash(data, feature) ==
    <<Abs(PyHash(Lower(Strip(data[feature])), hash_seed)) % HashRange>>

RECURSIVE AppendCategorical(_, _, _, _)
AppendCategorical(data, encoders, todo, features) ==
    IF todo = <<>> THEN features
    ELSE AppendCategorical(data, encoders, Tail(todo),
            features \o (IF Truthy(encoders) /\ IsDict(encoders)
                         THEN EncodeWithEncoders(data, encoders, Head(todo))
                         ELSE EncodeWithHash(data, Head(todo))))

preprocess_credit_card_data(data, encoders) ==
    LET numeric == [i \in 1..Len(numerical_features) |-> Float(data[numerical_features[i]])]
    IN  AppendCategorical(data, encoders, categorical_features, numeric)

CreditRequiredFields ==
    {"merchant", "category", "amt", "city", "state", "lat", "long", "city_pop", "job",
     "merch_lat", "merch_long"}

CreditNumericFields == {"amt", "lat", "long", "city_pop", "merch_lat", "merch_long"}

CreditStringFields == {"merchant", "category", "city", "state", "job"}

Chars == {"a", "b", "A", "B", Space}

\* isinstance(v, str)
IsStr(v) == v \in Seq(Chars)

validate_credit_card_data(data) ==
    /\ \A f \in CreditRequiredFields : f \in DOMAIN data
    /\ \A f \in CreditNumericFields : IsNumber(data[f])
    /\ ~(data["amt"] <= 0)
    /\ \A f \in CreditStringFields : IsStr(data[f]) /\ Strip(data[f]) # <<>>

get_credit_card_feature_names ==
    <<"amt", "lat", "long", "city_pop", "merch_lat", "merch_long", "merchant_encoded",
      "category_encoded", "city_encoded", "state_encoded", "job_encoded">>

-----------------------------------------------------------------------------
(* app/models/model_loader.py *)

\* An estimator is opaque: what the code reads of it is n_features_in_ and
\* whether it has predict_proba; what it answers is an input of each request.
NoEstimator == [n_features_in_ |-> 0, has_predict_proba |-> FALSE]

\* What load_model leaves behind and returns
LoadResult(m, e, l, ret) == [models |-> m, label_encoders |-> e, loaded_models |-> l, ret |-> ret]

\* a loader for which an encoder that fails to deserialize is fatal
load_model_encoder_fatal(model_name, model_src, encoder_src) ==
    IF model_src.kind = "missing"
    THEN LoadResult(models, label_encoders, loaded_models, FALSE)
    ELSE IF model_src.kind = "corrupt"
    THEN LoadResult(models, label_encoders, DictSet(loaded_models, model_name, FALSE), FALSE)
    ELSE IF encoder_src.kind = "corrupt"
    THEN LoadResult(DictSet(models, model_name, model_src.obj), label_encoders,
                    DictSet(loaded_models, model_name, FALSE), FALSE)
    ELSE LoadResult(DictSet(models, model_name, model_src.obj),
                    DictSet(label_encoders, model_name,
                            IF encoder_src.kind = "ok" THEN encoder_src.obj ELSE None),
                    DictSet(loaded_models, model_name, TRUE),
                    TRUE)

\* a loader that rebuilds the flags dict when a model fails to deserialize
load_model_rebuilds_flags(model_name, model_src, encoder_src) ==
    IF model_src.kind = "missing"
    THEN LoadResult(models, label_encoders, loaded_models, FALSE)
    ELSE IF model_src.kind = "corrupt"
    THEN LoadResult(models, label_encoders, DictSet(EmptyDict, model_name, FALSE), FALSE)
    ELSE LoadResult(DictSet(models, model_name, model_src.obj),
                    DictSet(label_encoders, model_name,
                            IF encoder_src.kind = "ok" THEN encoder_src.obj ELSE None),
                    DictSet(loaded_models, model_name, TRUE),
                    TRUE)

\* model_src.kind: "missing" (no file at model_path), "corrupt" (joblib.load and
\* pickle.load both raise), "ok" (deserializes to model_src.obj);
\* encoder_src.kind: "missing" (no path or no file), "corrupt", "ok"
load_model(model_name, model_src, encoder_src) ==
    IF model_src.kind = "missing"
    THEN LoadResult(models, label_encoders, loaded_models, FALSE)
    ELSE IF model_src.kind = "corrupt"
    THEN LoadResult(models, label_encoders, DictSet(loaded_models, model_name, FALSE), FALSE)
    ELSE LoadResult(DictSet(models, model_name, model_src.obj),
                    DictSet(label_encoders, model_name,
                            IF encoder_src.kind = "ok" THEN encoder_src.obj ELSE None),
                    DictSet(loaded_models, model_name, TRUE),
                    TRUE)

get_model(model_name) ==
    IF model_name \notin DOMAIN loaded_models \/ ~loaded_models[model_name]
    THEN [exc |-> "ValueError", msg |-> "Model not loaded", val |-> NoEstimator]
    ELSE [exc |-> "None", msg |-> "", val |-> models[model_name]]

get_label_encoders(model_name) == DictGet(label_encoders, model_name, None)

\* a lookup that takes a name without an entry for loaded
is_model_loaded_default_true(model_name) == DictGet(loaded_models, model_name, TRUE)

is_model_loaded(model_name) == DictGet(loaded_models, model_name, FALSE)

get_loaded_models_status == loaded_models

\* MultiModelLoader.predict(model_name, [features])[0]; out is what the
\* estimator does with the features
predict(model_name, out) ==
    LET model == get_model(model_name)
    IN  IF model.exc # "None" THEN [exc |-> model.exc, msg |-> model.msg, val |-> FALSE]
        ELSE IF out.predict_raises
        THEN [exc |-> "Exception", msg |-> "estimator predict error", val |-> FALSE]
        ELSE [exc |-> "None", msg |-> "", val |-> out.prediction]

\* MultiModelLoader.predict_proba(model_name, [features]); val is
\* probabilities[0][1], is_none tells the None return
predict_proba(model_name, out) ==
    LET model == get_model(model_name)
    IN  IF model.exc # "None"
        THEN [exc |-> model.exc, msg |-> model.msg, is_none |-> TRUE, val |-> 0]
        ELSE IF ~model.val.has_predict_proba
        THEN [exc |-> "None", msg |-> "", is_none |-> TRUE, val |-> 0]
        ELSE IF out.proba_raises
        THEN [exc |-> "Exception", msg |-> "estimator predict_proba error",
              is_none |-> TRUE, val |-> 0]
        ELSE [exc |-> "None", msg |-> "", is_none |-> FALSE, val |-> out.probability]

-----------------------------------------------------------------------------
(* app/services/fraud_service.py *)

HighThreshold == 80

MediumThreshold == 60

LowThreshold == 40

\* thresholds that include their bound
_assess_risk_inclusive(probability) ==
    IF probability >= HighThreshold THEN <<"high", "HIGH">>
    ELSE IF probability >= MediumThreshold THEN <<"medium", "MEDIUM">>
    ELSE IF probability >= LowThreshold THEN <<"medium", "MEDIUM">>
    ELSE <<"high", "LOW">>

\* a classifier without the 0.4 branch
_assess_risk_two_branches(probability) ==
    IF probability > HighThreshold THEN <<"high", "HIGH">>
    ELSE IF probability > MediumThreshold THEN <<"medium", "MEDIUM">>
    ELSE <<"high", "LOW">>

_assess_risk(probability) ==
    IF probability > HighThreshold THEN <<"high", "HIGH">>
    ELSE IF probability > MediumThreshold THEN <<"medium", "MEDIUM">>
    ELSE IF probability > LowThreshold THEN <<"medium", "MEDIUM">>
    ELSE <<"high", "LOW">>

\* zip(feature_names, features)
Zip(names, values) ==
    [i \in 1..(IF Len(names) < Len(values) THEN Len(names) ELSE Len(values))
        |-> <<names[i], values[i]>>]

\* a count check that lets a short vector through
FeatureCountAbove(features, expected_features) == Len(features) > expected_features

\* a dispatcher that never compares the vector with the expected width
FeatureCountUnchecked(features, expected_features) == FALSE

\* if len(features) != expected_features
FeatureCountMismatch(features, expected_features) == Len(features) # expected_features

\* raise inside the try block: the exception, and the steps begun before it
Raised(exc, msg, steps) == [exc |-> exc, msg |-> msg, steps |-> steps, body |-> <<>>]

\* The try block shared by predict_online_payment_fraud and
\* predict_credit_card_fraud, which differ in the validator, the pipeline, the
\* feature names and the amount field
TryPredict(model_name, is_valid, features, feature_names, amount, out) ==
    IF ~is_valid
    THEN Raised("HTTPException", "400: Invalid data", <<"Validating">>)
    ELSE
    LET model == get_model(model_name)
    IN  IF model.exc # "None"
        THEN Raised(model.exc, model.msg, <<"Validating", "Encoding", "CountChecking">>)
        ELSE IF FeatureCountMismatch(features, model.val.n_features_in_)
        THEN Raised("ValueError", "Feature count mismatch",
                    <<"Validating", "Encoding", "CountChecking">>)
        ELSE
        LET prediction == predict(model_name, out)
        IN  IF prediction.exc # "None"
            THEN Raised(prediction.exc, prediction.msg,
                        <<"Validating", "Encoding", "CountChecking", "Predicting">>)
            ELSE
            LET probabilities == predict_proba(model_name, out)
            IN  IF probabilities.exc # "None"
                THEN Raised(probabilities.exc, probabilities.msg,
                            <<"Validating", "Encoding", "CountChecking", "Predicting",
                              "Scoring">>)
                ELSE
                LET probability == IF probabilities.is_none THEN 0 ELSE probabilities.val
                    risk == _assess_risk(probability)
                IN  [exc |-> "None", msg |-> "",
                     steps |-> <<"Validating", "Encoding", "CountChecking", "Predicting",
                                 "Scoring", "Done">>,
                     body |-> [model_type |-> model_name,
                               is_fraud |-> prediction.val,
                               fraud_probability |-> probability,
                               confidence_level |-> risk[1],
                               risk_score |-> risk[2],
                               transaction_amount |-> Float(amount),
                               features_used |-> Zip(feature_names, features)]]

\* a handler that catches ValueError only: any other exception leaves predict
\* and the transport answers with its own bare 500
ExceptValueError(r, detail) ==
    IF r.exc = "ValueError"
    THEN [status_code |-> 500, detail |-> detail, cause |-> r.msg, steps |-> r.steps,
          body |-> <<>>]
    ELSE IF r.exc # "None"
    THEN [status_code |-> 500, detail |-> "Internal Server Error", cause |-> "",
          steps |-> r.steps, body |-> <<>>]
    ELSE [status_code |-> 200, detail |-> "", cause |-> "", steps |-> r.steps,
          body |-> r.body]

\* except Exception as e: raise HTTPException(status_code=500, ...)
ExceptException(r, detail) ==
    IF r.exc # "None"
    THEN [status_code |-> 500, detail |-> detail, cause |-> r.msg, steps |-> r.steps,
          body |-> <<>>]
    ELSE [status_code |-> 200, detail |-> "", cause |-> "", steps |-> r.steps,
          body |-> r.body]

FraudDetectionService_predict_online_payment_fraud(data, out) ==
    ExceptException(
        TryPredict("online-payment",
                   validate_online_payment_data(data),
                   preprocess_online_payment_data(data, get_label_encoders("online-payment")),
                   get_online_payment_feature_names,
                   data["amount"],
                   out),
        "Online payment prediction failed")

FraudDetectionService_predict_credit_card_fraud(data, out) ==
    ExceptException(
        TryPredict("credit-card",
                   validate_credit_card_data(data),
                   preprocess_credit_card_data(data, get_label_encoders("credit-card")),
                   get_credit_card_feature_names,
                   data["amt"],
                   out),
        "Credit card prediction failed")

-----------------------------------------------------------------------------
(* app/main.py *)

HTTPException(status_code, detail) ==
    [status_code |-> status_code, detail |-> detail, cause |-> "", steps |-> <<>>,
     body |-> <<>>]

predict_online_payment_fraud(data, out) ==
    IF fraud_service # "service"
    THEN HTTPException(503, "Fraud detection service not available")
    ELSE IF ~is_model_loaded("online-payment")
    THEN HTTPException(503, "Online payment model not loaded")
    ELSE FraudDetectionService_predict_online_payment_fraud(data, out)

predict_credit_card_fraud(data, out) ==
    IF fraud_service # "service"
    THEN HTTPException(503, "Fraud detection service not available")
    ELSE IF ~is_model_loaded("credit-card")
    THEN HTTPException(503, "Credit card model not loaded")
    ELSE FraudDetectionService_predict_credit_card_fraud(data, out)

\* any(models_status.values())
AnyLoaded(models_status) == \E k \in DOMAIN models_status : models_status[k]

health_check ==
    LET models_status == get_loaded_models_status
    IN  [status_code |-> 200, detail |-> "", cause |-> "", steps |-> <<>>,
         body |-> [status |-> IF AnyLoaded(models_status) THEN "healthy" ELSE "unhealthy",
                   models_loaded |-> models_status]]

root ==
    [status_code |-> 200, detail |-> "", cause |-> "", steps |-> <<>>,
     body |-> [status |-> "running", models_loaded |-> get_loaded_models_status]]

get_models_status ==
    LET models_status == get_loaded_models_status
    IN  [status_code |-> 200, detail |-> "", cause |-> "", steps |-> <<>>,
         body |-> [models_loaded |-> models_status,
                   available_endpoints |->
                       [d \in Domains |-> DictGet(models_status, d, FALSE)],
                   encoders_status |->
                       [d \in DOMAIN models_status |-> Truthy(get_label_encoders(d))]]]

-----------------------------------------------------------------------------
(* Inputs: artifacts on disk, request records, estimator answers *)

Widths == {5, 11}

Estimators == [n_features_in_ : Widths, has_predict_proba : BOOLEAN]

ModelArtifacts ==
    {[kind |-> "missing", obj |-> NoEstimator], [kind |-> "corrupt", obj |-> NoEstimator]}
    \cup {[kind |-> "ok", obj |-> m] : m \in Estimators}

\* LabelEncoder().fit(transaction_types): classes are sorted
SklearnTypeEncoder ==
    [kind |-> "fitted",
     codes |-> {<<"CASH_IN", 0>>, <<"CASH_OUT", 1>>, <<"DEBIT", 2>>, <<"PAYMENT", 3>>,
                <<"TRANSFER", 4>>},
     fields |-> {}]

\* a LabelEncoder fitted on two of the types
PartialTypeEncoder ==
    [kind |-> "fitted", codes |-> {<<"CASH_OUT", 0>>, <<"PAYMENT", 1>>}, fields |-> {}]

\* a plain dict of type codes
TypeDict ==
    [kind |-> "dict", codes |-> {<<"PAYMENT", 1>>, <<"TRANSFER", 2>>}, fields |-> {}]

EmptyDictEncoder == [kind |-> "dict", codes |-> {}, fields |-> {}]

FieldEncoder(codes) == [kind |-> "fitted", codes |-> codes]

BrokenFieldEncoder == [kind |-> "broken", codes |-> {}]

\* a dict with a fitted encoder for each of the five categorical fields
FullFieldEncoders ==
    [kind |-> "dict", codes |-> {},
     fields |-> {<<"merchant", FieldEncoder({<<<<"a">>, 3>>, <<<<"b">>, 4>>})>>,
                 <<"category", FieldEncoder({<<<<"b">>, 5>>})>>,
                 <<"city", FieldEncoder({<<<<"a">>, 6>>})>>,
                 <<"state", FieldEncoder({<<<<"A">>, 7>>})>>,
                 <<"job", FieldEncoder({<<<<"b", "a">>, 8>>})>>}]

\* a dict with no encoder for city, a failing encoder for category and
\* vocabularies that miss values
PartialFieldEncoders ==
    [kind |-> "dict", codes |-> {},
     fields |-> {<<"merchant", FieldEncoder({<<<<"a">>, 3>>})>>,
                 <<"category", BrokenFieldEncoder>>,
                 <<"state", FieldEncoder({<<<<"B">>, 7>>})>>,
                 <<"job", FieldEncoder({<<<<"b", "a">>, 8>>})>>}]

EncoderObjects ==
    {SklearnTypeEncoder, PartialTypeEncoder, TypeDict, EmptyDictEncoder, FullFieldEncoders,
     PartialFieldEncoders}

EncoderArtifacts ==
    {[kind |-> "missing", obj |-> None], [kind |-> "corrupt", obj |-> None]}
    \cup {[kind |-> "ok", obj |-> e] : e \in EncoderObjects}

\* OnlinePaymentInput.dict(): every field is present and typed
OnlinePayment(t, a) ==
    [step |-> 1, type |-> t, amount |-> a, oldbalanceOrg |-> 100, newbalanceOrig |-> 90,
     oldbalanceDest |-> 0, newbalanceDest |-> 10]

\* three valid records, one with an unknown type, one with a negative amount
OnlinePaymentInputs ==
    {OnlinePayment("PAYMENT", 10), OnlinePayment("TRANSFER", 10), OnlinePayment("CASH_IN", 10),
     OnlinePayment("WIRE", 10), OnlinePayment("PAYMENT", -5)}

\* CreditCardInput.dict()
CreditCard(m, a) ==
    [merchant |-> m, category |-> <<"b">>, amt |-> a, city |-> <<"a">>, state |-> <<"A">>,
     lat |-> 39, long |-> -82, city_pop |-> 35, job |-> <<"b", "a">>, merch_lat |-> 40,
     merch_long |-> -81]

\* three valid records, one with a blank merchant, one with a zero amount
CreditCardInputs ==
    {CreditCard(<<"a">>, 25), CreditCard(<<"A", Space>>, 25), CreditCard(<<"b">>, 25),
     CreditCard(<<Space>>, 25), CreditCard(<<"a">>, 0)}

Probabilities == {0, 40, 41, 60, 61, 80, 81, 100}

\* What the estimator does when called: predict raises, or returns a label and
\* then predict_proba raises or returns the probability of fraud.  The label
\* is the likelier class, and two answers disagree with their probability.
EstimatorOutputs ==
    {[predict_raises |-> TRUE, prediction |-> FALSE, proba_raises |-> FALSE, probability |-> 0],
     [predict_raises |-> FALSE, prediction |-> FALSE, proba_raises |-> TRUE, probability |-> 0],
     [predict_raises |-> FALSE, prediction |-> TRUE, proba_raises |-> FALSE, probability |-> 0],
     [predict_raises |-> FALSE, prediction |-> FALSE, proba_raises |-> FALSE,
      probability |-> 100]}
    \cup {[predict_raises |-> FALSE, prediction |-> (q > 50), proba_raises |-> FALSE,
           probability |-> q] : q \in Probabilities}

HashSeeds == {0, 7}

-----------------------------------------------------------------------------
(* The state machine *)

NoLoading == [model_name |-> "none", model_src |-> "none", encoder_src |-> "none"]

NoRequest == [endpoint |-> "none", data |-> <<>>]

NoResponse == HTTPException(0, "")

\* MultiModelLoader.__init__ and the module-level globals of main.py
Init ==
    /\ models = EmptyDict
    /\ label_encoders = EmptyDict
    /\ loaded_models = EmptyDict
    /\ startup_loaded = {}
    /\ loading = NoLoading
    /\ fraud_service = "unset"
    /\ hash_seed \in HashSeeds
    /\ pc = "startup"
    /\ request = NoRequest
    /\ response = NoResponse
    /\ load_count = 0
    /\ last_ret = [d \in Domains |-> "none"]

\* One iteration of lifespan's loop: model_loader.load_model(...) and the
\* bookkeeping of its return value
LoadModel(model_name, model_src, encoder_src) ==
    /\ pc = "startup"
    /\ load_count < MaxLoads
    /\ LET r == load_model(model_name, model_src, encoder_src)
       IN  /\ models' = r.models
           /\ label_encoders' = r.label_encoders
           /\ loaded_models' = r.loaded_models
           /\ startup_loaded' = IF r.ret THEN startup_loaded \cup {model_name}
                                ELSE startup_loaded
           /\ last_ret' = [last_ret EXCEPT ![model_name] = IF r.ret THEN "True" ELSE "False"]
    /\ loading' = [model_name |-> model_name, model_src |-> model_src.kind,
                   encoder_src |-> encoder_src.kind]
    /\ load_count' = load_count + 1
    /\ UNCHANGED <<fraud_service, hash_seed, pc, request, response>>

\* a handler that marks every model unloaded when it answers with a 500
RespondMarkingFailures(endpoint, data, answer) ==
    /\ pc = "idle"
    /\ request' = [endpoint |-> endpoint, data |-> data]
    /\ response' = answer
    /\ pc' = "responded"
    /\ loaded_models' = IF answer.status_code = 500
                        THEN [d \in DOMAIN loaded_models |-> FALSE]
                        ELSE loaded_models
    /\ UNCHANGED <<models, label_encoders, startup_loaded, loading, fraud_service,
                   hash_seed, load_count, last_ret>>

\* The end of lifespan's startup, once every configured model was attempted;
\* lifespan's locals are dead from here on
FinishStartup ==
    /\ pc = "startup"
    /\ \A d \in Domains : last_ret[d] # "none"
    /\ fraud_service' = IF startup_loaded # {} THEN "service" ELSE "None"
    /\ startup_loaded' = {}
    /\ loading' = NoLoading
    /\ pc' = "idle"
    /\ UNCHANGED <<models, label_encoders, loaded_models, hash_seed, request, response,
                   load_count, last_ret>>

Respond(endpoint, data, answer) ==
    /\ pc = "idle"
    /\ request' = [endpoint |-> endpoint, data |-> data]
    /\ response' = answer
    /\ pc' = "responded"
    /\ UNCHANGED <<models, label_encoders, loaded_models, startup_loaded, loading,
                   fraud_service, hash_seed, load_count, last_ret>>

PredictOnlinePayment(data, out) ==
    Respond("/predict/online-payment", data, predict_online_payment_fraud(data, out))

PredictCreditCard(data, out) ==
    Respond("/predict/credit-card", data, predict_credit_card_fraud(data, out))

HealthCheck == Respond("/health", <<>>, health_check)

Root == Respond("/", <<>>, root)

ModelsStatus == Respond("/models/status", <<>>, get_models_status)

\* The response leaves the process; nothing of the request is kept
Deliver ==
    /\ pc = "responded"
    /\ request' = NoRequest
    /\ response' = NoResponse
    /\ pc' = "idle"
    /\ UNCHANGED <<models, label_encoders, loaded_models, startup_loaded, loading,
                   fraud_service, hash_seed, load_count, last_ret>>

Next ==
    \/ \E d \in Domains, m \in ModelArtifacts, e \in EncoderArtifacts : LoadModel(d, m, e)
    \/ FinishStartup
    \/ \E data \in OnlinePaymentInputs, out \in EstimatorOutputs : PredictOnlinePayment(data, out)
    \/ \E data \in CreditCardInputs, out \in EstimatorOutputs : PredictCreditCard(data, out)
    \/ HealthCheck
    \/ Root
    \/ ModelsStatus
    \/ Deliver

Spec == Init /\ [][Next]_vars

-----------------------------------------------------------------------------
(* Vocabulary of the properties *)

PredictEndpoints == {"/predict/online-payment", "/predict/credit-card"}

DomainOf(endpoint) ==
    IF endpoint = "/predict/online-payment" THEN "online-payment" ELSE "credit-card"

\* a prediction request has been answered
Predicted == pc = "responded" /\ request.endpoint \in PredictEndpoints

RequestDomain == DomainOf(request.endpoint)

\* the Input Validator's verdict on the request's record
RequestValid ==
    IF RequestDomain = "online-payment" THEN validate_online_payment_data(request.data)
    ELSE validate_credit_card_data(request.data)

\* the loaded flag as the registry stores it
FlagSet(d) == d \in DOMAIN loaded_models /\ loaded_models[d]

\* a PredictionResult was returned
ReturnedResult == response.status_code = 200

\* the failure kind of an answer: the status code and detail the transport sends
FailureKind ==
    CASE response.status_code = 200 -> "none"
      [] response.status_code = 400 -> "InvalidInput"
      [] response.status_code = 503
         /\ response.detail = "Fraud detection service not available" -> "ServiceUnavailable"
      [] response.status_code = 503 -> "ModelNotLoaded"
      [] response.status_code = 500 -> "PredictionFailed"
      [] OTHER -> "unknown"

\* the request went past the route's guards into the dispatcher
Dispatched == Predicted /\ response.steps # <<>>

\* the length of the vector the domain's pipeline builds
PipelineLength(d) == IF d = "online-payment" THEN Len(get_online_payment_feature_names)
                     ELSE Len(get_credit_card_feature_names)

-----------------------------------------------------------------------------
(* C1: when the Input Validator returns false for the record, the            *)
(* dispatcher's predict ends with InvalidInput (the 4xx failure), not with   *)
(* PredictionFailed, and returns no PredictionResult.                        *)
C1_InvalidInputReported ==
    (Dispatched /\ ~RequestValid) =>
        (FailureKind = "InvalidInput" /\ response.body = <<>>)

\* the built vector's length differs from the loaded estimator's expected width
CountMismatch ==
    /\ Dispatched
    /\ RequestValid
    /\ FlagSet(RequestDomain)
    /\ PipelineLength(RequestDomain) # models[RequestDomain].n_features_in_

(* C2 as stated: when the feature count differs from the estimator's         *)
(* expected width, the request ends with a FeatureMismatch failure that is   *)
(* not the generic PredictionFailed.                                         *)
C2_FeatureMismatchKind ==
    CountMismatch =>
        (~ReturnedResult /\ FailureKind \notin {"PredictionFailed", "none"})

(* C2 amended: on a feature-count mismatch the request ends with the         *)
(* PredictionFailed failure (500) whose cause is the feature-count-mismatch  *)
(* message; the estimator is never called with the vector (no truncation or  *)
(* padding) and no PredictionResult is returned.                             *)
C2_MismatchReportedAsPredictionFailed ==
    CountMismatch =>
        /\ FailureKind = "PredictionFailed"
        /\ response.cause = "Feature count mismatch"
        /\ response.steps = <<"Validating", "Encoding", "CountChecking">>
        /\ response.body = <<>>

C2_Witness ==
    /\ CountMismatch
    /\ response.cause = "Feature count mismatch"
    /\ RequestDomain = "online-payment"
    /\ models["online-payment"].n_features_in_ = 11

(* C3: a prediction request for a domain whose loaded flag is false ends     *)
(* with ModelNotLoaded, or with ServiceUnavailable when no domain was ever   *)
(* loaded, and never returns a PredictionResult, whatever the record.        *)
C3_UnloadedDomainRefused ==
    (Predicted /\ ~FlagSet(RequestDomain)) =>
        /\ ~ReturnedResult
        /\ response.body = <<>>
        /\ FailureKind = (IF DOMAIN models = {} THEN "ServiceUnavailable"
                          ELSE "ModelNotLoaded")

C3_Witness ==
    /\ Predicted
    /\ ~FlagSet(RequestDomain)
    /\ RequestValid
    /\ FailureKind = "ModelNotLoaded"
    /\ RequestDomain \notin DOMAIN loaded_models

(* C4: every domain whose most recent load call returned false is marked     *)
(* unloaded: isLoaded is false and get fails with NotLoaded, also when an    *)
(* earlier load of the domain had succeeded.                                 *)
C4_FailedLoadMarksUnloaded ==
    \A d \in Domains :
        last_ret[d] = "False" =>
            (~is_model_loaded(d) /\ get_model(d).exc = "ValueError")

(* C5: status() has an entry for every domain on which load was attempted,   *)
(* and the entry is true iff the domain can serve predictions.               *)
C5_StatusCoversAttempted ==
    \A d \in Domains :
        last_ret[d] # "none" =>
            /\ d \in DOMAIN get_loaded_models_status
            /\ get_loaded_models_status[d] = (get_model(d).exc = "None")

-----------------------------------------------------------------------------
\* the value of the i-th feature of the returned result
FeatureUsed(i) == response.body.features_used[i][2]

EstimatorFaults == {"estimator predict error", "estimator predict_proba error"}

\* the hash-based fallback code of a categorical value
FallbackCode(v) == Abs(PyHash(Lower(Strip(v)), hash_seed)) % HashRange

(* C6: when a domain's model loads but its encoder artifact is missing or    *)
(* fails to deserialize, load returns true, the domain is loaded and its     *)
(* encoder is absent; a later request with a valid record still reaches      *)
(* Done with the fallback encoding, unless the estimator itself faults.      *)
C6_EncoderFailureNotFatal ==
    /\ \A d \in Domains :
          (/\ pc = "startup"
           /\ loading.model_name = d
           /\ loading.model_src = "ok"
           /\ loading.encoder_src \in {"missing", "corrupt"}) =>
              /\ last_ret[d] = "True"
              /\ is_model_loaded(d)
              /\ d \in DOMAIN label_encoders
              /\ get_label_encoders(d) = None
    /\ (/\ Dispatched
        /\ RequestValid
        /\ FlagSet(RequestDomain)
        /\ label_encoders[RequestDomain] = None
        /\ models[RequestDomain].n_features_in_ = PipelineLength(RequestDomain)) =>
           \/ response.cause \in EstimatorFaults
           \/ /\ ReturnedResult
              /\ response.steps[Len(response.steps)] = "Done"
              /\ Len(response.body.features_used) = PipelineLength(RequestDomain)
              /\ RequestDomain = "online-payment" =>
                    FeatureUsed(3) = GetOrZero(fallback_mapping, request.data["type"])
              /\ RequestDomain = "credit-card" =>
                    \A i \in 1..Len(categorical_features) :
                        FeatureUsed(Len(numerical_features) + i)
                            = FallbackCode(request.data[categorical_features[i]])

C6_Witness ==
    /\ Predicted
    /\ ReturnedResult
    /\ RequestDomain = "credit-card"
    /\ label_encoders["credit-card"] = None
    /\ Truthy(get_label_encoders("online-payment"))

\* what the registry holds for a domain
EntryOf(d) ==
    <<d \in DOMAIN models, DictGet(models, d, NoEstimator),
      d \in DOMAIN label_encoders, DictGet(label_encoders, d, None),
      d \in DOMAIN loaded_models, DictGet(loaded_models, d, FALSE)>>

(* C7: a load call for one domain, whether it succeeds or fails, leaves the  *)
(* other domain's estimator, encoder and loaded flag unchanged; and the      *)
(* loaded status a domain's first load leaves depends only on whether its    *)
(* own model artifact deserializes.                                          *)
C7_LoadsIndependent ==
    [][\A d \in Domains :
          /\ (load_count' # load_count /\ loading'.model_name # d) =>
                EntryOf(d)' = EntryOf(d)
          /\ (load_count' # load_count /\ loading'.model_name = d /\ last_ret[d] = "none") =>
                (is_model_loaded(d)' <=> loading'.model_src = "ok")]_vars

C7_Witness ==
    /\ pc = "startup"
    /\ loading.model_name = "online-payment"
    /\ loading.model_src = "corrupt"
    /\ last_ret["online-payment"] = "False"
    /\ last_ret["credit-card"] = "True"
    /\ is_model_loaded("credit-card")

\* the (confidence level, risk tier) of the returned result
ResultRisk == <<response.body.confidence_level, response.body.risk_score>>

(* C8 as stated: classify(0.8) = (medium, MEDIUM), classify(0.4) =           *)
(* (medium, MEDIUM), classify(0.0) = (high, LOW), classify(1.0) = (high,     *)
(* HIGH).                                                                    *)
C8_BoundariesAsStated ==
    (Predicted /\ ReturnedResult) =>
        /\ response.body.fraud_probability = 80 => ResultRisk = <<"medium", "MEDIUM">>
        /\ response.body.fraud_probability = 40 => ResultRisk = <<"medium", "MEDIUM">>
        /\ response.body.fraud_probability = 0 => ResultRisk = <<"high", "LOW">>
        /\ response.body.fraud_probability = 100 => ResultRisk = <<"high", "HIGH">>

(* C8 amended: classify(0.8) = (medium, MEDIUM), classify(0.4) = (high,      *)
(* LOW), classify(0.0) = (high, LOW), classify(1.0) = (high, HIGH).          *)
C8_Boundaries ==
    (Predicted /\ ReturnedResult) =>
        /\ response.body.fraud_probability = 80 => ResultRisk = <<"medium", "MEDIUM">>
        /\ response.body.fraud_probability = 40 => ResultRisk = <<"high", "LOW">>
        /\ response.body.fraud_probability = 0 => ResultRisk = <<"high", "LOW">>
        /\ response.body.fraud_probability = 100 => ResultRisk = <<"high", "HIGH">>

C8_Witness ==
    /\ Predicted
    /\ ReturnedResult
    /\ response.body.fraud_probability = 40
    /\ ResultRisk = <<"high", "LOW">>

\* the classifier's contract on a probability in hundredths
RiskContract(probability, risk) ==
    /\ risk \in {<<"high", "HIGH">>, <<"medium", "MEDIUM">>, <<"high", "LOW">>}
    /\ risk = <<"high", "HIGH">> <=> probability > 80
    /\ risk = <<"medium", "MEDIUM">> <=> (40 < probability /\ probability <= 80)
    /\ risk = <<"high", "LOW">> <=> probability <= 40

(* C9: the classifier is total on [0,1] and returns (high, HIGH) iff         *)
(* p > 0.8, (medium, MEDIUM) iff 0.4 < p <= 0.8, (high, LOW) iff p <= 0.4,   *)
(* never another pair; every PredictionResult's (confidence level, risk      *)
(* tier) is the classification of its fraud probability.                     *)
C9_ClassifierContract ==
    /\ (Predicted /\ ReturnedResult) =>
          RiskContract(response.body.fraud_probability, ResultRisk)
    /\ \A p \in 0..100 : RiskContract(p, _assess_risk(p))

C9_Witness ==
    /\ Predicted
    /\ ReturnedResult
    /\ response.body.fraud_probability = 60
    /\ ResultRisk = <<"medium", "MEDIUM">>
    /\ response.body.is_fraud

\* a fitted encoder is present for the online-payment type and does not know
\* the record's type
UnseenType ==
    /\ Predicted
    /\ ReturnedResult
    /\ RequestDomain = "online-payment"
    /\ label_encoders["online-payment"].kind = "fitted"
    /\ ~HasKey(label_encoders["online-payment"].codes, request.data["type"])

\* a fitted encoder is present for a credit-card field and does not know the
\* record's value
UnseenCategory(feature) ==
    /\ Predicted
    /\ ReturnedResult
    /\ RequestDomain = "credit-card"
    /\ IsDict(label_encoders["credit-card"])
    /\ HasKey(label_encoders["credit-card"].fields, feature)
    /\ ItemOf(label_encoders["credit-card"].fields, feature).kind = "fitted"
    /\ ~HasKey(ItemOf(label_encoders["credit-card"].fields, feature).codes,
               request.data[feature])

(* C10 as stated: for both domains, when a fitted encoder is present and the *)
(* value being encoded is absent from its vocabulary, the feature is 0.      *)
C10_UnseenYieldsZero ==
    /\ UnseenType => FeatureUsed(3) = 0
    /\ \A i \in 1..Len(categorical_features) :
          UnseenCategory(categorical_features[i]) =>
              FeatureUsed(Len(numerical_features) + i) = 0

(* C10 amended: when a fitted encoder is present and does not know the       *)
(* value, a credit-card categorical feature is 0, and the online-payment     *)
(* type feature is the built-in mapping's code of the type (PAYMENT 0,       *)
(* TRANSFER 1, CASH_OUT 2, DEBIT 3, CASH_IN 4); the vector is built in full. *)
C10_UnseenFallsBack ==
    /\ UnseenType =>
          /\ FeatureUsed(3) = GetOrZero(fallback_mapping, request.data["type"])
          /\ Len(response.body.features_used) = Len(get_online_payment_feature_names)
    /\ \A i \in 1..Len(categorical_features) :
          UnseenCategory(categorical_features[i]) =>
              /\ FeatureUsed(Len(numerical_features) + i) = 0
              /\ Len(response.body.features_used) = Len(get_credit_card_feature_names)

C10_Witness ==
    /\ UnseenType
    /\ request.data["type"] = "TRANSFER"
    /\ FeatureUsed(3) = 1

-----------------------------------------------------------------------------
\* the names of the returned result's features, in order
FeatureNamesUsed ==
    [i \in 1..Len(response.body.features_used) |-> response.body.features_used[i][1]]

\* the values of the returned result's features, in order
FeaturesUsed ==
    [i \in 1..Len(response.body.features_used) |-> response.body.features_used[i][2]]

\* a result was returned for a valid online-payment record
OnlineResult == Predicted /\ ReturnedResult /\ RequestDomain = "online-payment"

\* the sender-side and receiver-side balance differences of the record
ExpectedDiffOrig ==
    request.data["oldbalanceOrg"] - request.data["newbalanceOrig"] + request.data["amount"]

ExpectedDiffDest ==
    request.data["newbalanceDest"] - request.data["oldbalanceDest"] - request.data["amount"]

\* the code of the built-in mapping for a type
BuiltInCode(t) ==
    CASE t = "PAYMENT" -> 0 [] t = "TRANSFER" -> 1 [] t = "CASH_OUT" -> 2 [] t = "DEBIT" -> 3
      [] t = "CASH_IN" -> 4 [] OTHER -> 0

(* C11 as stated: build returns [step, amount, type_encoded, diffOrig,       *)
(* diffDest], with type_encoded the fitted encoder's code when it knows the  *)
(* type, the built-in mapping when the encoder is a plain map, and the       *)
(* built-in mapping when no usable encoder exists.                           *)
C11_PlainMapUsesBuiltIn ==
    OnlineResult =>
        LET enc == label_encoders["online-payment"]
            t == request.data["type"]
        IN  /\ FeaturesUsed[1] = request.data["step"]
            /\ FeaturesUsed[2] = request.data["amount"]
            /\ FeaturesUsed[3] = (IF enc.kind = "fitted" /\ HasKey(enc.codes, t)
                                  THEN ItemOf(enc.codes, t)
                                  ELSE BuiltInCode(t))
            /\ FeaturesUsed[4] = ExpectedDiffOrig
            /\ FeaturesUsed[5] = ExpectedDiffDest

(* C11 amended: for every valid online-payment record and encoder state,     *)
(* build returns exactly 5 elements [step, amount, type_encoded, diffOrig,   *)
(* diffDest]; type_encoded is the fitted encoder's code when a fitted        *)
(* encoder knows the type, the plain map's own entry for the type (0 when    *)
(* the map has none) when the encoder is a non-empty plain map, and the      *)
(* built-in mapping otherwise.                                               *)
C11_OnlineVector ==
    OnlineResult =>
        LET enc == label_encoders["online-payment"]
            t == request.data["type"]
        IN  /\ FeatureNamesUsed = <<"step", "amount", "type_encoded", "diffOrig", "diffDest">>
            /\ FeaturesUsed =
                 <<request.data["step"],
                   request.data["amount"],
                   IF enc.kind = "fitted" /\ HasKey(enc.codes, t) THEN ItemOf(enc.codes, t)
                   ELSE IF enc.kind = "dict" /\ (enc.codes # {} \/ enc.fields # {})
                   THEN (IF HasKey(enc.codes, t) THEN ItemOf(enc.codes, t) ELSE 0)
                   ELSE BuiltInCode(t),
                   ExpectedDiffOrig,
                   ExpectedDiffDest>>

C11_Witness ==
    /\ OnlineResult
    /\ label_encoders["online-payment"] = TypeDict
    /\ request.data["type"] = "PAYMENT"
    /\ FeaturesUsed = <<1, 10, 1, 20, 0>>

\* a result was returned for a valid credit-card record
CreditResult == Predicted /\ ReturnedResult /\ RequestDomain = "credit-card"

\* the value the credit-card pipeline appends for a categorical field under
\* the encoders the registry holds
ExpectedCategorical(feature) ==
    LET enc == label_encoders["credit-card"]
        v == request.data[feature]
    IN  IF enc.kind = "dict" /\ (enc.codes # {} \/ enc.fields # {})
        THEN IF HasKey(enc.fields, feature)
             THEN LET fe == ItemOf(enc.fields, feature)
                  IN  IF fe.kind = "fitted" /\ HasKey(fe.codes, v) THEN ItemOf(fe.codes, v)
                      ELSE 0
             ELSE 0
        ELSE FallbackCode(v)

(* C12: for every valid credit-card record and every encoder state, build    *)
(* returns exactly 11 elements: amt, lat, long, city_pop, merch_lat,         *)
(* merch_long as given, then one encoded value each for merchant, category,  *)
(* city, state, job; a field that cannot be encoded never aborts or shortens *)
(* the vector, so an estimator of width 11 never sees a count mismatch.      *)
C12_CreditVector ==
    /\ CreditResult =>
          /\ Len(response.body.features_used) = 11
          /\ FeatureNamesUsed =
                <<"amt", "lat", "long", "city_pop", "merch_lat", "merch_long",
                  "merchant_encoded", "category_encoded", "city_encoded", "state_encoded",
                  "job_encoded">>
          /\ FeaturesUsed =
                <<request.data["amt"], request.data["lat"], request.data["long"],
                  request.data["city_pop"], request.data["merch_lat"],
                  request.data["merch_long"],
                  ExpectedCategorical("merchant"), ExpectedCategorical("category"),
                  ExpectedCategorical("city"), ExpectedCategorical("state"),
                  ExpectedCategorical("job")>>
    /\ (/\ Dispatched
        /\ RequestValid
        /\ RequestDomain = "credit-card"
        /\ models["credit-card"].n_features_in_ = 11) =>
           (ReturnedResult \/ response.cause \in EstimatorFaults)

\* a record whose merchant is unknown to its encoder, under a map whose
\* category encoder fails and whose city encoder is missing
C12_Witness ==
    /\ CreditResult
    /\ label_encoders["credit-card"] = PartialFieldEncoders
    /\ request.data["merchant"] = <<"b">>
    /\ FeaturesUsed = <<25, 39, -82, 35, 40, -81, 0, 0, 0, 0, 8>>

\* the step of the dispatcher at which the request stopped
LastStep == response.steps[Len(response.steps)]

\* the message of the fault a request meets when it stops at a step
CausesAt(step) ==
    CASE step = "Validating" -> {"400: Invalid data"}
      [] step = "CountChecking" -> {"Model not loaded", "Feature count mismatch"}
      [] step = "Predicting" -> {"estimator predict error"}
      [] step = "Scoring" -> {"estimator predict_proba error"}
      [] OTHER -> {}

\* the prefix the dispatcher puts before the cause of a reported failure
FailurePrefix(d) ==
    IF d = "online-payment" THEN "Online payment prediction failed"
    ELSE "Credit card prediction failed"

(* C13: every dispatched prediction request ends in exactly one outcome: a   *)
(* PredictionResult, or a PredictionFailed failure (500) that carries the    *)
(* domain's prefix and the message of the fault raised at the step where the *)
(* request stopped; nothing else leaves predict.                             *)
C13_FaultsReported ==
    Dispatched =>
        \/ /\ ReturnedResult
           /\ response.body # <<>>
           /\ response.body.model_type = RequestDomain
           /\ response.cause = ""
           /\ LastStep = "Done"
        \/ /\ ~ReturnedResult
           /\ FailureKind = "PredictionFailed"
           /\ response.body = <<>>
           /\ response.detail = FailurePrefix(RequestDomain)
           /\ response.cause \in CausesAt(LastStep)

\* an estimator fault during predict-probability, reported with its message
C13_Witness ==
    /\ Dispatched
    /\ RequestValid
    /\ FailureKind = "PredictionFailed"
    /\ response.detail = "Credit card prediction failed"
    /\ response.cause = "estimator predict_proba error"

\* the dispatcher's steps in the order of the code
StepOrder == <<"Validating", "Encoding", "CountChecking", "Predicting", "Scoring", "Done">>

\* the steps a request went through, as a set
StepsRun == {response.steps[i] : i \in 1..Len(response.steps)}

(* C14: within one request the steps run as a prefix of Validating,          *)
(* Encoding, CountChecking, Predicting, Scoring, Done: Encoding only for a   *)
(* valid record, Predicting only when the vector's length equals the         *)
(* estimator's width, Scoring only after predict returned, Done only with a  *)
(* result, and a failed step is the last step of its request.                *)
C14_StepsInOrder ==
    Dispatched =>
        /\ \E n \in 1..Len(StepOrder) : response.steps = SubSeq(StepOrder, 1, n)
        /\ "Encoding" \in StepsRun <=> RequestValid
        /\ "Predicting" \in StepsRun =>
              /\ RequestValid
              /\ PipelineLength(RequestDomain) = models[RequestDomain].n_features_in_
        /\ "Scoring" \in StepsRun => response.cause # "estimator predict error"
        /\ "Done" \in StepsRun <=> ReturnedResult
        /\ response.cause = "400: Invalid data" => LastStep = "Validating"
        /\ response.cause = "Feature count mismatch" => LastStep = "CountChecking"
        /\ response.cause = "estimator predict error" => LastStep = "Predicting"
        /\ response.cause = "estimator predict_proba error" => LastStep = "Scoring"

\* a valid record of matching width whose estimator fails in predict
C14_Witness ==
    /\ Dispatched
    /\ RequestValid
    /\ RequestDomain = "online-payment"
    /\ response.steps = <<"Validating", "Encoding", "CountChecking", "Predicting">>
    /\ ~ReturnedResult

\* the answer is one the request gets from the registry as it is now
AnsweredFromRegistry ==
    CASE request.endpoint = "/predict/online-payment" ->
           \E out \in EstimatorOutputs :
               response = predict_online_payment_fraud(request.data, out)
      [] request.endpoint = "/predict/credit-card" ->
           \E out \in EstimatorOutputs :
               response = predict_credit_card_fraud(request.data, out)
      [] request.endpoint = "/health" -> response = health_check
      [] request.endpoint = "/" -> response = root
      [] request.endpoint = "/models/status" -> response = get_models_status
      [] OTHER -> FALSE

(* C15: once startup loading has finished, no prediction, health or status   *)
(* request, successful or failed, and no delivery of an answer changes the   *)
(* registry's estimators, encoders or loaded flags (nor the service handle   *)
(* or the hash seed), and every answer is one the request gets from that     *)
(* unchanged registry alone.                                                 *)
C15_RegistryReadOnly ==
    /\ [][pc # "startup" =>
             /\ models' = models
             /\ label_encoders' = label_encoders
             /\ loaded_models' = loaded_models
             /\ fraud_service' = fraud_service
             /\ hash_seed' = hash_seed
             /\ pc' # "startup"]_vars
    /\ [](pc = "responded" => AnsweredFromRegistry)

\* a failed prediction after which both domains are still loaded
C15_Witness ==
    /\ Dispatched
    /\ ~ReturnedResult
    /\ \A d \in Domains : FlagSet(d) /\ d \in DOMAIN models /\ d \in DOMAIN label_encoders
    /\ load_count = MaxLoads

====
